---- MODULE Spec2Model ----
(***************************************************************************)
(* Model of the audio upload server (server.ts / server.js): an Express    *)
(* application with GET /health and POST /api/audio, the latter behind     *)
(* multer's upload.single('audio') with disk storage, a .wav extension     *)
(* filter and a 50 MiB file size limit, and a global error handler.        *)
(*                                                                         *)
(* Strings that the code takes apart (original file names, storage file    *)
(* names) are sequences of one-character strings.  The bytes of an upload  *)
(* are not enumerated: the body of request r is identified by r and its    *)
(* length, and a file on disk records its length, the set of requests      *)
(* whose bytes it holds and the set of requests that opened it.            *)
(*                                                                         *)
(* multer and busboy are modelled as they are documented to behave:        *)
(* upload.single(field) accepts one file under that field and raises       *)
(* LIMIT_UNEXPECTED_FILE for a file under any other; limits.fileSize is    *)
(* the largest accepted file size, LIMIT_FILE_SIZE being raised above it;  *)
(* on such an abort the files the request wrote are unlinked before the    *)
(* error is passed on; an error of the write stream is passed on as it is. *)
(***************************************************************************)
EXTENDS Naturals, Sequences, FiniteSets, TLC

VARIABLES
    server,     \* "boot" while the module body runs, "listening" after app.listen
    dirExists,  \* whether UPLOAD_DIR exists on the filesystem
    mkdirCalls, \* number of fs.mkdirSync calls made (history)
    now,        \* the value Date.now() returns
    pc,         \* position of each request in its middleware chain
    req,        \* what each request carries
    file,       \* req.file as multer sets it (NoFile when undefined)
    resp,       \* the responses sent on each request, in order
    stream,     \* the write stream multer's disk storage opened for each request
    disk,       \* directory contents of UPLOAD_DIR: file name -> file
    detached    \* requests whose write stream refers to an unlinked file

vars == <<server, dirExists, mkdirCalls, now, pc, req, file, resp, stream, disk, detached>>

----------------------------------------------------------------------------
(* Bounds of the model *)

MaxRequests == 2
MaxClock == 1
Epoch == 9
SmallSize == 1000

Requests == 1..MaxRequests

----------------------------------------------------------------------------
(* Strings *)

\* String.prototype.toLowerCase on one character
lowerChar(c) ==
    CASE c = "W" -> "w"
      [] c = "A" -> "a"
      [] c = "V" -> "v"
      [] OTHER -> c

toLowerCase(s) == [i \in 1..Len(s) |-> lowerChar(s[i])]

\* \s of the regular expression
Whitespace == {" "}

\* index of the last "." of s, 0 when there is none
lastDot(s) ==
    LET dots == {i \in 1..Len(s) : s[i] = "."}
    IN IF dots = {} THEN 0 ELSE CHOOSE i \in dots : \A j \in dots : j <= i

\* where the extension of s starts, 0 when s has none: path.extname and
\* path.parse give no extension to a name without a dot, to a name whose only
\* dot is its first character, and to ".."
extStart(s) ==
    LET d == lastDot(s)
    IN IF d <= 1 \/ s = <<".", ".">> THEN 0 ELSE d

\* path.extname(s)
extname(s) ==
    IF extStart(s) = 0 THEN <<>> ELSE SubSeq(s, extStart(s), Len(s))

\* path.parse(s).name, for s without directory separators
parseName(s) ==
    IF extStart(s) = 0 THEN s ELSE SubSeq(s, 1, extStart(s) - 1)

\* s.replace(/\s+/g, '_'): every maximal run of whitespace becomes one "_"
RECURSIVE replaceWhitespace(_)
replaceWhitespace(s) ==
    IF s = <<>> THEN <<>>
    ELSE IF Head(s) \in Whitespace
         THEN IF Len(s) > 1 /\ s[2] \in Whitespace
              THEN replaceWhitespace(Tail(s))
              ELSE <<"_">> \o replaceWhitespace(Tail(s))
         ELSE <<Head(s)>> \o replaceWhitespace(Tail(s))

Digit(d) ==
    CASE d = 0 -> "0" [] d = 1 -> "1" [] d = 2 -> "2" [] d = 3 -> "3"
      [] d = 4 -> "4" [] d = 5 -> "5" [] d = 6 -> "6" [] d = 7 -> "7"
      [] d = 8 -> "8" [] d = 9 -> "9"

\* the decimal digits of n, as the template literal formats a number
RECURSIVE numberToString(_)
numberToString(n) ==
    IF n < 10 THEN <<Digit(n)>>
    ELSE numberToString(n \div 10) \o <<Digit(n % 10)>>

----------------------------------------------------------------------------
(* Storage configuration *)

UPLOAD_DIR == "uploads"

\* if (!fs.existsSync(UPLOAD_DIR)) fs.mkdirSync(UPLOAD_DIR, {recursive: true})
\* as a function of whether the directory exists: whether it exists afterwards
ensureUploadDirNever(exists) == exists

ensureUploadDir(exists) == IF ~exists THEN TRUE ELSE exists

\* storage.filename: `${slug}_${timestamp}${extname.toLowerCase()}`
storageFilenameNoStamp(originalname, timestamp) ==
    replaceWhitespace(parseName(originalname)) \o toLowerCase(extname(originalname))

storageFilename(originalname, timestamp) ==
    replaceWhitespace(parseName(originalname)) \o <<"_">>
        \o numberToString(timestamp) \o toLowerCase(extname(originalname))

\* path.join(destination, filename)
pathJoin(dir, name) == <<dir, name>>

DotWav == <<".", "w", "a", "v">>

\* fileFilter: TRUE when the file is accepted
fileFilter(originalname) == toLowerCase(extname(originalname)) = DotWav

\* limits.fileSize
fileSize == 50 * 1024 * 1024

----------------------------------------------------------------------------
(* Errors and responses *)

NoErr == [isError |-> FALSE]
PlainError(m) == [isError |-> TRUE, multer |-> FALSE, message |-> m]
MulterError(m) == [isError |-> TRUE, multer |-> TRUE, message |-> m]

OnlyWav == "Only .wav files are allowed"
FileTooLarge == "File too large"
UnexpectedField == "Unexpected field"
NoFileProvided == "No file provided"
WriteFailed == "ENOSPC: no space left on device, write"
NoSuchDir == "ENOENT: no such file or directory, open"

\* errorHandler: the responses it sends for err
errorHandlerMulterOnly(err) ==
    IF err.isError /\ err.multer
    THEN << [status |-> 400, body |-> [ok |-> FALSE, message |-> err.message]] >>
    ELSE << >>

errorHandler(err) ==
    IF err.isError
    THEN << [status |-> IF err.multer THEN 400 ELSE 500,
             body |-> [ok |-> FALSE, message |-> err.message]] >>
    ELSE << >>

NoFile == [present |-> FALSE]

\* the POST /api/audio route handler: the responses it sends for req.file = f
postAudioNoStatus(f) ==
    IF ~f.present
    THEN << [status |-> 200, body |-> [ok |-> FALSE, message |-> NoFileProvided]] >>
    ELSE << [status |-> 200,
             body |-> [ok |-> TRUE, filename |-> f.filename,
                       size |-> f.size, path |-> f.path]] >>

postAudio(f) ==
    IF ~f.present
    THEN << [status |-> 400, body |-> [ok |-> FALSE, message |-> NoFileProvided]] >>
    ELSE << [status |-> 200,
             body |-> [ok |-> TRUE, filename |-> f.filename,
                       size |-> f.size, path |-> f.path]] >>

\* the GET /health route handler
getHealth == << [status |-> 200, body |-> [status |-> "ok"]] >>

----------------------------------------------------------------------------
(* Requests *)

Str_a_b_wav == <<"a", " ", "b", ".", "w", "a", "v">>
Str_a__b_wav == <<"a", " ", " ", "b", ".", "w", "a", "v">>
Str_a_u_b_wav == <<"a", "_", "b", ".", "w", "a", "v">>
Str_a_u_b_WAV == <<"a", "_", "b", ".", "W", "A", "V">>
Str_a_mp3 == <<"a", ".", "m", "p", "3">>
Str_dot_wav == <<".", "w", "a", "v">>

\* the original file names uploads are given
OrigNames == {Str_a_b_wav, Str_a__b_wav, Str_a_u_b_wav, Str_a_mp3, Str_dot_wav}

\* the body lengths uploads are given, in bytes: small, at the limit, above it
Sizes == {SmallSize, fileSize, fileSize + 1}

NoRequest == [method |-> "", url |-> ""]

GetHealthRequest == [method |-> "GET", url |-> "/health"]

\* POST /api/audio without any file part
PostWithoutFile == [method |-> "POST", url |-> "/api/audio", field |-> ""]

\* POST /api/audio with one file part under `field`
PostWithFile(field, originalname, size) ==
    [method |-> "POST", url |-> "/api/audio", field |-> field,
     originalname |-> originalname, size |-> size]

\* every original name with a small body, and one more name with the large ones
RequestShapes ==
    {GetHealthRequest, PostWithoutFile, PostWithFile("file", Str_a_u_b_wav, SmallSize)}
        \cup {PostWithFile("audio", n, SmallSize) : n \in OrigNames}
        \cup {PostWithFile("audio", Str_a_u_b_WAV, s) : s \in Sizes \ {SmallSize}}

IsUpload(r) ==
    req[r].method = "POST" /\ req[r].url = "/api/audio" /\ req[r].field = "audio"

NoStream == [open |-> FALSE]

----------------------------------------------------------------------------
(* The filesystem under UPLOAD_DIR *)

Max(a, b) == IF a >= b THEN a ELSE b
Min(a, b) == IF a <= b THEN a ELSE b

\* A file: its length, the requests whose bytes it holds (from) and the requests
\* that opened it for writing (by).
\* fs.createWriteStream(path): the file is created, or truncated when it exists
openForWrite(d, name, r) ==
    [p \in DOMAIN d \cup {name} |->
        IF p = name
        THEN [len |-> 0, from |-> {},
              by |-> IF name \in DOMAIN d THEN d[name].by \cup {r} ELSE {r}]
        ELSE d[p]]

\* n bytes of request r written from offset 0 through r's stream
writeBytes(d, name, r, n) ==
    IF n = 0 \/ name \notin DOMAIN d THEN d
    ELSE [d EXCEPT ![name] =
            [len |-> Max(@.len, n),
             from |-> IF n >= @.len THEN {r} ELSE @.from \cup {r},
             by |-> @.by]]

\* multer removes the files of an aborted request: fs.unlink(path)
removeUploadedNothing(d, name) == d

removeUploaded(d, name) == [p \in DOMAIN d \ {name} |-> d[p]]

\* busboy cuts a file at limits.fileSize and reports the limit as reached when
\* the body is longer than that
exceedsLimit(size) == size > fileSize

----------------------------------------------------------------------------
(* Initial state and actions *)

Init ==
    /\ server = "boot"
    /\ dirExists \in BOOLEAN
    /\ mkdirCalls = 0
    /\ now = Epoch
    /\ pc = [r \in Requests |-> "idle"]
    /\ req = [r \in Requests |-> NoRequest]
    /\ file = [r \in Requests |-> NoFile]
    /\ resp = [r \in Requests |-> << >>]
    /\ stream = [r \in Requests |-> NoStream]
    /\ disk = << >>
    /\ detached = {}

\* the module body: the upload directory is ensured, then app.listen
Startup ==
    /\ server = "boot"
    /\ dirExists' = ensureUploadDir(dirExists)
    /\ mkdirCalls' = IF dirExists' # dirExists THEN mkdirCalls + 1 ELSE mkdirCalls
    /\ server' = "listening"
    /\ UNCHANGED <<now, pc, req, file, resp, stream, disk, detached>>

\* a millisecond passes
Tick ==
    /\ now < Epoch + MaxClock
    /\ now' = now + 1
    /\ UNCHANGED <<server, dirExists, mkdirCalls, pc, req, file, resp, stream, disk, detached>>

\* the listener accepts a request; requests are numbered in order of arrival
Receive(r) ==
    /\ server = "listening"
    /\ pc[r] = "idle"
    /\ \A o \in Requests : o < r => pc[o] # "idle"
    /\ \E q \in RequestShapes : req' = [req EXCEPT ![r] = q]
    /\ pc' = [pc EXCEPT ![r] = "received"]
    /\ UNCHANGED <<server, dirExists, mkdirCalls, now, file, resp, stream, disk, detached>>

Finish(r, responses) ==
    /\ resp' = [resp EXCEPT ![r] = @ \o responses]
    /\ pc' = [pc EXCEPT ![r] = "done"]

\* GET /health
Health(r) ==
    /\ pc[r] = "received"
    /\ req[r] = GetHealthRequest
    /\ Finish(r, getHealth)
    /\ UNCHANGED <<server, dirExists, mkdirCalls, now, req, file, stream, disk, detached>>

\* POST /api/audio without a file: multer leaves req.file unset and calls next()
PostNoFile(r) ==
    /\ pc[r] = "received"
    /\ req[r] = PostWithoutFile
    /\ Finish(r, postAudio(file[r]))
    /\ UNCHANGED <<server, dirExists, mkdirCalls, now, req, file, stream, disk, detached>>

\* POST /api/audio with a file under another field than upload.single names
PostUnexpectedField(r) ==
    /\ pc[r] = "received"
    /\ req[r].method = "POST"
    /\ req[r].field \notin {"", "audio"}
    /\ Finish(r, errorHandler(MulterError(UnexpectedField)))
    /\ UNCHANGED <<server, dirExists, mkdirCalls, now, req, file, stream, disk, detached>>

\* the file part under `audio` starts: fileFilter, then the disk storage names
\* the file and opens its write stream
StartFile(r) ==
    /\ pc[r] = "received"
    /\ IsUpload(r)
    /\ IF ~fileFilter(req[r].originalname)
       THEN /\ Finish(r, errorHandler(PlainError(OnlyWav)))
            /\ UNCHANGED <<stream, disk>>
       ELSE IF ~dirExists
       THEN /\ Finish(r, errorHandler(PlainError(NoSuchDir)))
            /\ UNCHANGED <<stream, disk>>
       ELSE LET name == storageFilename(req[r].originalname, now)
            IN /\ stream' = [stream EXCEPT ![r] =
                                [open |-> TRUE, filename |-> name, timestamp |-> now]]
               /\ disk' = openForWrite(disk, name, r)
               /\ pc' = [pc EXCEPT ![r] = "writing"]
               /\ UNCHANGED resp
    /\ UNCHANGED <<server, dirExists, mkdirCalls, now, req, file, detached>>

\* the body has been piped to the write stream, cut at the size limit
WriteDone(r) ==
    /\ pc[r] = "writing"
    /\ LET name == stream[r].filename
           n == Min(req[r].size, fileSize)
       IN /\ disk' = IF r \in detached THEN disk ELSE writeBytes(disk, name, r, n)
          /\ IF exceedsLimit(req[r].size)
             THEN /\ pc' = [pc EXCEPT ![r] = "aborting"]
                  /\ UNCHANGED file
             ELSE /\ pc' = [pc EXCEPT ![r] = "stored"]
                  /\ file' = [file EXCEPT ![r] =
                                [present |-> TRUE, filename |-> name, size |-> n,
                                 path |-> pathJoin(UPLOAD_DIR, name)]]
    /\ UNCHANGED <<server, dirExists, mkdirCalls, now, req, resp, stream, detached>>

\* the write stream fails (disk full): multer passes the error on and removes nothing
WriteError(r) ==
    /\ pc[r] = "writing"
    /\ Finish(r, errorHandler(PlainError(WriteFailed)))
    /\ UNCHANGED <<server, dirExists, mkdirCalls, now, req, file, stream, disk, detached>>

\* the route handler runs with req.file set
Respond(r) ==
    /\ pc[r] = "stored"
    /\ Finish(r, postAudio(file[r]))
    /\ UNCHANGED <<server, dirExists, mkdirCalls, now, req, file, stream, disk, detached>>

\* the size limit was reached: multer unlinks what the request wrote, then
\* passes LIMIT_FILE_SIZE to the error handler
Abort(r) ==
    /\ pc[r] = "aborting"
    /\ disk' = removeUploaded(disk, stream[r].filename)
    /\ detached' = IF stream[r].filename \in DOMAIN disk'
                    THEN detached
                    ELSE detached \cup
                         {o \in Requests : stream[o].open
                                            /\ stream[o].filename = stream[r].filename}
    /\ Finish(r, errorHandler(MulterError(FileTooLarge)))
    /\ UNCHANGED <<server, dirExists, mkdirCalls, now, req, file, stream>>

Step(r) ==
    \/ Health(r)
    \/ PostNoFile(r)
    \/ PostUnexpectedField(r)
    \/ StartFile(r)
    \/ WriteDone(r)
    \/ WriteError(r)
    \/ Respond(r)
    \/ Abort(r)

Next ==
    \/ Startup
    \/ Tick
    \/ \E r \in Requests : Receive(r)
    \/ \E r \in Requests : Health(r)
    \/ \E r \in Requests : PostNoFile(r)
    \/ \E r \in Requests : PostUnexpectedField(r)
    \/ \E r \in Requests : StartFile(r)
    \/ \E r \in Requests : WriteDone(r)
    \/ \E r \in Requests : WriteError(r)
    \/ \E r \in Requests : Respond(r)
    \/ \E r \in Requests : Abort(r)

Spec == Init /\ [][Next]_vars

\* the event loop runs every pending callback and clients send their whole body
FairSpec == Spec /\ \A r \in Requests : WF_vars(Step(r))

----------------------------------------------------------------------------
(* Vocabulary of the properties *)

Done(r) == pc[r] = "done"

IsPostAudio(r) == req[r].method = "POST" /\ req[r].url = "/api/audio"

\* the lower-cased extension of the uploaded file is .wav
HasWavExtension(r) == toLowerCase(extname(req[r].originalname)) = DotWav

Failure(status, message) ==
    << [status |-> status, body |-> [ok |-> FALSE, message |-> message]] >>

\* the request ended in the 500 of a failed disk write
DiskFailed(r) == Done(r) /\ resp[r] = Failure(500, WriteFailed)

\* the request ended in a 200 of the upload route
Succeeded(r) ==
    Done(r) /\ IsPostAudio(r) /\ Len(resp[r]) = 1 /\ resp[r][1].status = 200

\* the file `name` of the upload directory holds exactly the bytes r uploaded
HoldsBytesOf(name, r) ==
    /\ name \in DOMAIN disk
    /\ disk[name].len = req[r].size
    /\ disk[name].from = {r}

\* no file of the upload directory was opened by r
NoFileOf(r) == \A p \in DOMAIN disk : r \notin disk[p].by

Quiescent == \A r \in Requests : pc[r] \in {"idle", "done"}

----------------------------------------------------------------------------
(* C1: every upload whose lower-cased extension is not .wav ends with status
   400 and the body {ok: false, message: "Only .wav files are allowed"}. *)
C1_WrongExtensionGets400 ==
    \A r \in Requests :
        (Done(r) /\ IsUpload(r) /\ ~HasWavExtension(r))
            => resp[r] = Failure(400, OnlyWav)

(* C2: two uploads with different original names whose storage names are
   generated in the same millisecond get different storage names. *)
C2_SameMillisecondNamesDiffer ==
    \A r1, r2 \in Requests :
        (/\ stream[r1].open /\ stream[r2].open
         /\ stream[r1].timestamp = stream[r2].timestamp
         /\ req[r1].originalname # req[r2].originalname)
            => stream[r1].filename # stream[r2].filename

(* C3: once no request is in flight, the upload directory holds exactly one
   file per request that ended in success and none for any other request:
   a failed request leaves the directory as it was and a successful one adds
   exactly one file. *)
C3_OneFilePerSuccess ==
    Quiescent =>
        /\ Cardinality(DOMAIN disk) = Cardinality({r \in Requests : Succeeded(r)})
        /\ \A p \in DOMAIN disk :
              \E r \in Requests : Succeeded(r) /\ file[r].filename = p
        /\ \A r \in Requests : Succeeded(r) => file[r].filename \in DOMAIN disk

(* C5: an upload with a .wav extension and at most 50 MiB, whose disk write
   does not fail, ends with 200 and {ok: true, filename, size, path}: size is
   the number of bytes uploaded, filename the generated storage name, and the
   file at path holds exactly the uploaded bytes. *)
C5_ValidUploadStored ==
    \A r \in Requests :
        (/\ Done(r) /\ IsUpload(r) /\ HasWavExtension(r)
         /\ req[r].size <= fileSize /\ ~DiskFailed(r))
            => /\ Len(resp[r]) = 1
               /\ resp[r][1].status = 200
               /\ resp[r][1].body.ok = TRUE
               /\ resp[r][1].body.size = req[r].size
               /\ resp[r][1].body.filename =
                     replaceWhitespace(parseName(req[r].originalname)) \o <<"_">>
                        \o numberToString(stream[r].timestamp) \o DotWav
               /\ resp[r][1].body.path = <<UPLOAD_DIR, resp[r][1].body.filename>>
               /\ HoldsBytesOf(resp[r][1].body.filename, r)

(* C9: no two uploads, in flight or completed, write to the same path of the
   upload directory. *)
C9_DistinctPaths ==
    \A r1, r2 \in Requests :
        (r1 # r2 /\ stream[r1].open /\ stream[r2].open)
            => stream[r1].filename # stream[r2].filename

----------------------------------------------------------------------------
(* C4: every request receives exactly one response: at no time more than one,
   exactly one once its handling has ended, and every request the listener
   accepted is eventually answered. *)
C4_ExactlyOneResponse ==
    /\ [](\A r \in Requests :
            Len(resp[r]) <= 1 /\ (Done(r) => Len(resp[r]) = 1))
    /\ \A r \in Requests : (pc[r] # "idle") ~> (Len(resp[r]) = 1)

\* one request answered by the error handler, another by the route handler
C4_Witness ==
    \E r1, r2 \in Requests :
        /\ Done(r1) /\ Len(resp[r1]) = 1 /\ resp[r1][1].status = 500
        /\ Succeeded(r2) /\ IsUpload(r2)

(* C6: an upload that passed the extension filter and whose transfer reached
   the 50 MiB limit ends with 400 and {ok: false, message}, and from then on
   no file this request opened, partial or not, is in the upload directory. *)
C6_OversizeRejectedAndRemoved ==
    \A r \in Requests :
        (/\ Done(r) /\ IsUpload(r) /\ HasWavExtension(r)
         /\ req[r].size > fileSize /\ ~DiskFailed(r))
            => /\ resp[r] = Failure(400, FileTooLarge)
               /\ NoFileOf(r)

C6_Witness ==
    \E r \in Requests :
        /\ Done(r) /\ IsUpload(r) /\ req[r].size = fileSize + 1
        /\ resp[r] = Failure(400, FileTooLarge)
        /\ stream[r].open /\ stream[r].filename \notin DOMAIN disk

(* C7: two successful uploads of the same original name whose storage names
   were generated in different milliseconds have different storage names,
   and, no third upload having been given either name, both files are in the
   upload directory, each holding the bytes of its own upload. *)
C7_SameNameDifferentMillisecond ==
    \A r1, r2 \in Requests :
        (/\ r1 # r2 /\ Succeeded(r1) /\ Succeeded(r2)
         /\ req[r1].originalname = req[r2].originalname
         /\ stream[r1].timestamp # stream[r2].timestamp)
            => /\ file[r1].filename # file[r2].filename
               /\ (\A o \in Requests \ {r1, r2} :
                       stream[o].open =>
                           stream[o].filename \notin {file[r1].filename, file[r2].filename})
                    => /\ HoldsBytesOf(file[r1].filename, r1)
                       /\ HoldsBytesOf(file[r2].filename, r2)

C7_Witness ==
    \E r1, r2 \in Requests :
        /\ r1 # r2 /\ Succeeded(r1) /\ Succeeded(r2)
        /\ req[r1].originalname = req[r2].originalname
        /\ stream[r1].timestamp # stream[r2].timestamp
        /\ HoldsBytesOf(file[r1].filename, r1)
        /\ HoldsBytesOf(file[r2].filename, r2)

\* the step that handles a POST /api/audio without a file under `audio`
HandlesNoAudioFile(r) ==
    /\ pc[r] = "received" /\ pc'[r] = "done"
    /\ IsPostAudio(r) /\ req[r].field # "audio"

(* C8 as stated: every POST /api/audio without a file under the field `audio`
   is answered 400 {ok: false, message: "No file provided"} and leaves the
   upload directory unchanged. *)
C8_NoAudioFileGetsNoFileProvided ==
    [][\A r \in Requests :
          HandlesNoAudioFile(r)
              => /\ resp'[r] = Failure(400, NoFileProvided)
                 /\ disk' = disk]_vars

(* C8 as amended: a POST /api/audio that carries no file at all is answered
   400 {ok: false, message: "No file provided"}; one that carries a file under
   another field than `audio` is answered 400 {ok: false, message:
   "Unexpected field"}; both leave the upload directory unchanged. *)
C8_NoFileOrUnexpectedField ==
    [][\A r \in Requests :
          HandlesNoAudioFile(r)
              => /\ req[r].field = "" => resp'[r] = Failure(400, NoFileProvided)
                 /\ req[r].field # "" => resp'[r] = Failure(400, UnexpectedField)
                 /\ disk' = disk]_vars

\* a request without a file answered while the upload directory holds a file
C8_Witness ==
    \E r \in Requests :
        /\ Done(r) /\ req[r] = PostWithoutFile
        /\ resp[r] = Failure(400, NoFileProvided)
        /\ DOMAIN disk # {}

(* C10: the upload directory exists whenever the server accepts requests, so
   whenever a file is written: requests are handled only after startup, which
   creates the directory when it is absent, and nothing removes it. *)
C10_UploadDirExists ==
    /\ \A r \in Requests : pc[r] # "idle" => server = "listening"
    /\ server = "listening" => dirExists
    /\ \A r \in Requests : stream[r].open => dirExists

\* a file being written into a directory that startup had to create
C10_Witness ==
    /\ mkdirCalls = 1
    /\ \E r \in Requests : pc[r] = "writing" /\ stream[r].filename \in DOMAIN disk

====
